---- MODULE Spec2Model ----
(***************************************************************************)
(* The layer generator of umoci (oci/layer/generate.go): GenerateLayers,   *)
(* GenerateLayer and GenerateInsertLayer, the producer goroutine that      *)
(* writes tar entries into an io.Pipe, the channel of layer readers and a  *)
(* consumer that receives and reads (or drops) them. Two smaller state     *)
(* machines follow it: the masked paths of the repack command              *)
(* (cmd/umoci/repack.go) and the noop and gzip compressors (package        *)
(* mutate).                                                                *)
(*                                                                         *)
(* Strings are sequences of one-character strings, compared byte-wise as   *)
(* Go compares strings.                                                    *)
(***************************************************************************)
EXTENDS Integers, Sequences, FiniteSets, TLC

\* ------------------------------------------------------------------ bounds

\* The longest delta list handed to GenerateLayers.
MaxDeltas == 3

\* ----------------------------------------------------------------- strings

\* Byte values of the characters used in path names (ASCII).
Ord ==
    ("." :> 46) @@ ("/" :> 47) @@ ("a" :> 97) @@ ("b" :> 98) @@ ("c" :> 99)
    @@ ("d" :> 100) @@ ("e" :> 101) @@ ("h" :> 104) @@ ("o" :> 111)
    @@ ("p" :> 112) @@ ("q" :> 113) @@ ("r" :> 114) @@ ("s" :> 115)
    @@ ("t" :> 116) @@ ("w" :> 119)

Min(a, b) == IF a < b THEN a ELSE b

\* Go's s < t on strings: byte-wise lexicographic order.
StrLess(s, t) ==
    \E k \in 1..(Min(Len(s), Len(t)) + 1) :
        /\ \A j \in 1..(k - 1) : s[j] = t[j]
        /\ \/ k = Len(s) + 1 /\ k <= Len(t)
           \/ k <= Len(s) /\ k <= Len(t) /\ Ord[s[k]] < Ord[t[k]]

\* strings.Split(s, "/"): the components of s, empty ones included.
RECURSIVE Components(_)
Components(s) ==
    IF \A k \in 1..Len(s) : s[k] # "/"
    THEN <<s>>
    ELSE LET k == CHOOSE x \in 1..Len(s) :
                      s[x] = "/" /\ \A y \in 1..(x - 1) : s[y] # "/"
         IN  <<SubSeq(s, 1, k - 1)>> \o Components(SubSeq(s, k + 1, Len(s)))

\* strings.Join(cs, "/").
RECURSIVE JoinSlash(_)
JoinSlash(cs) ==
    IF cs = <<>> THEN <<>>
    ELSE IF Len(cs) = 1 THEN cs[1]
    ELSE cs[1] \o <<"/">> \o JoinSlash(Tail(cs))

\* The ".." elimination of path.Clean over the components, left to right.
RECURSIVE Resolve(_, _, _)
Resolve(cs, acc, rooted) ==
    IF cs = <<>> THEN acc
    ELSE LET c == Head(cs) IN
         IF c = <<>> \/ c = <<".">> THEN Resolve(Tail(cs), acc, rooted)
         ELSE IF c = <<".", ".">>
         THEN IF acc # <<>> /\ acc[Len(acc)] # <<".", ".">>
              THEN Resolve(Tail(cs), SubSeq(acc, 1, Len(acc) - 1), rooted)
              ELSE IF rooted THEN Resolve(Tail(cs), acc, rooted)
              ELSE Resolve(Tail(cs), Append(acc, c), rooted)
         ELSE Resolve(Tail(cs), Append(acc, c), rooted)

\* path.Clean / filepath.Clean.
Clean(s) ==
    IF s = <<>> THEN <<".">>
    ELSE LET rooted == s[1] = "/"
             body == JoinSlash(Resolve(Components(s), <<>>, rooted))
             out == IF rooted THEN <<"/">> \o body ELSE body
         IN  IF out = <<>> THEN <<".">> ELSE out

\* path.Join(a, b): empty elements are ignored, the result is cleaned.
Join(a, b) ==
    IF a = <<>> /\ b = <<>> THEN <<>>
    ELSE IF a = <<>> THEN Clean(b)
    ELSE IF b = <<>> THEN Clean(a)
    ELSE Clean(a \o <<"/">> \o b)

\* filepath.Split(s): the directory part (with its trailing slash) and the
\* file part.
SplitDir(s) ==
    IF \A k \in 1..Len(s) : s[k] # "/" THEN <<>>
    ELSE LET k == CHOOSE x \in 1..Len(s) :
                      s[x] = "/" /\ \A y \in (x + 1)..Len(s) : s[y] # "/"
         IN  SubSeq(s, 1, k)

SplitFile(s) == SubSeq(s, Len(SplitDir(s)) + 1, Len(s))


\* ------------------------------------------------------------ tar dialect

\* One tar block: a header is one block, a body is padded to whole blocks.
blockSize == 512

\* The bytes that pad a body of n bytes to whole blocks.
Padding(n) == (blockSize - (n % blockSize)) % blockSize

\* The end-of-archive trailer written by tar.Writer.Close: two zero blocks.
trailerSize == 2 * blockSize

\* whPrefix, the prefix of a whiteout's basename.
whPrefix == <<".", "w", "h", ".">>

\* whOpaque, the basename of an opaque whiteout, ".wh..wh..opq".
whOpaque == whPrefix \o whPrefix \o <<".", "o", "p", "q">>

\* ------------------------------------------------------------- the inputs

\* The rootfs that GenerateLayers reads: what Lstat reports for each path.
\* The kind "Gone" is a path whose Lstat fails.
pD == <<"d">>
pDA == <<"d", "/", "a">>
pDB == <<"d", "/", "b">>
pDC == <<"d", "/", "c">>
pE == <<"e">>
pS == <<"s">>
pQ == <<"q">>

Universe == {pD, pDA, pDB, pDC, pE, pS, pQ}

FileInfo ==
    (pD :> [kind |-> "Dir", size |-> 0, nlink |-> 2, ino |-> 10, rdev00 |-> FALSE])
    @@ (pDA :> [kind |-> "Reg", size |-> 5, nlink |-> 2, ino |-> 11, rdev00 |-> FALSE])
    @@ (pDB :> [kind |-> "Reg", size |-> 5, nlink |-> 2, ino |-> 11, rdev00 |-> FALSE])
    @@ (pDC :> [kind |-> "Char", size |-> 0, nlink |-> 1, ino |-> 12, rdev00 |-> TRUE])
    @@ (pE :> [kind |-> "Reg", size |-> 2000, nlink |-> 1, ino |-> 13, rdev00 |-> FALSE])
    @@ (pS :> [kind |-> "Sock", size |-> 0, nlink |-> 1, ino |-> 14, rdev00 |-> FALSE])
    @@ (pQ :> [kind |-> "Gone", size |-> 0, nlink |-> 0, ino |-> 0, rdev00 |-> FALSE])

\* The delta types the differ reports for each path of the rootfs.
DeltaTypes ==
    (pD :> {"Modified", "Same"}) @@ (pDA :> {"Extra", "Missing"})
    @@ (pDB :> {"Modified", "Missing"}) @@ (pDC :> {"Extra"})
    @@ (pE :> {"Extra"}) @@ (pS :> {"Extra"}) @@ (pQ :> {"Extra"})

InodeDelta == UNION {[path : {p}, type : DeltaTypes[p]] : p \in Universe}

\* The delta lists: at most MaxDeltas deltas, no path twice, in any order.
DeltaLists ==
    UNION {{ds \in [1..n -> InodeDelta] :
                \A j, k \in 1..n : j # k => ds[j].path # ds[k].path}
           : n \in 0..MaxDeltas}

\* The values of maxLayerBytes tried: 0 is "no limit".
LayerLimits == {0, 1010, 3500}

\* The sets of masked path prefixes tried.
MaskSets == {{}, {pD}}

\* The tree that GenerateInsertLayer walks, as curPath[len(root):] of each
\* object in walk order: the root itself, then its children by name. The
\* kind "Err" is an object the walk reports with an error.
wRoot == <<>>
wA == <<"/", "a">>
wTest == <<"/", "t", "e", "s", "t">>
wBad == <<"/", "b">>

WalkInfo ==
    (wRoot :> [kind |-> "Dir", size |-> 0, nlink |-> 2, ino |-> 20, rdev00 |-> FALSE])
    @@ (wA :> [kind |-> "Reg", size |-> 5, nlink |-> 1, ino |-> 21, rdev00 |-> FALSE])
    @@ (wTest :> [kind |-> "Char", size |-> 0, nlink |-> 1, ino |-> 22, rdev00 |-> TRUE])
    @@ (wBad :> [kind |-> "Err", size |-> 0, nlink |-> 0, ino |-> 0, rdev00 |-> FALSE])

Walks ==
    {<<wRoot>>, <<wRoot, wA>>, <<wRoot, wTest>>, <<wRoot, wA, wTest>>,
     <<wRoot, wBad>>, <<wRoot, wA, wBad, wTest>>}

Roots == {<<>>, <<"/", "r", "/">>}
Targets == {<<"/">>, <<"t">>, <<"/", "t">>}

VARIABLES
    mode,           \* "layers": GenerateLayers; "insert": GenerateInsertLayer
    deltas,         \* the delta list, sorted in place by the producer
    maxLayerBytes,  \* GenerateLayers' last argument
    opt,            \* the options: translate (overlay whiteouts), masked
    root, target, opaque, walk,   \* GenerateInsertLayer's arguments and tree
    pc,             \* where the producer goroutine stands
    i,              \* the index of the delta (or walked object) at hand
    written,        \* counter.written
    pad,            \* tar.Writer: padding owed for the last body
    bodyLeft,       \* the body bytes AddFile still has to copy
    seen,           \* the tar generator's inode table: records [ino, path]
    pipes,          \* every io.Pipe made so far; the last one is current
    ch,             \* the channel of layer readers (pipe numbers)
    chClosed,       \* close(ch) has run
    Err,            \* the goroutine's named result
    held,           \* the pipe whose reader the consumer holds, or 0
    cstate,         \* the consumer: "run", "stopped" or "finished"
    results,        \* how each stream ended for the consumer
    lastCheck,      \* the last split decision: counter, size, outcome,
                    \* and the number of splits decided so far
    \* the repack command (cmd/umoci/repack.go)
    maskPath,       \* ctx.StringSlice("mask-path")
    noMaskVolumes,  \* ctx.Bool("no-mask-volumes")
    volumes,        \* the keys of config.Volumes
    maskedPaths,    \* the slice handed to umoci.Repack
    ranged,         \* the keys the range loop has visited
    rpc,            \* where the command stands
    \* the compressors (package mutate)
    compressor,     \* the Compressor: its kind and, for noop, its mediaType
    reader,         \* the source stream: its bytes and how it ends
    rd,             \* the bytes read from the source so far
    gzw,            \* the gzip writer: header written, pending bytes, total
    out,            \* what the reader of Compress's result gets, and its end
    gpc             \* where the copy (goroutine or consumer) stands

inputs == <<mode, maxLayerBytes, opt, root, target, opaque, walk>>
producer == <<pc, i, written, pad, bodyLeft, seen, Err>>
consumer == <<held, cstate, results>>
generator == <<inputs, deltas, producer, pipes, ch, chClosed, consumer,
               lastCheck>>
repack == <<maskPath, noMaskVolumes, volumes, maskedPaths, ranged, rpc>>
compress == <<compressor, reader, rd, gzw, out, gpc>>
others == <<repack, compress>>
vars == <<generator, others>>

NoErr == "nil"
cur == Len(pipes)


\* ------------------------------------------------- sorting the delta list

\* Mutant of Less: the comparison the other way round.
LessReversed(a, b) == StrLess(b.path, a.path)

\* inodeDeltas.Less: by path name alone.
Less(a, b) == StrLess(a.path, b.path)

\* One pass of the insertion sort that sort.Sort runs on short slices: the
\* new element moves left while it is Less than its left neighbour.
RECURSIVE InsertLeft(_, _)
InsertLeft(sorted, d) ==
    IF sorted # <<>> /\ Less(d, sorted[Len(sorted)])
    THEN Append(InsertLeft(SubSeq(sorted, 1, Len(sorted) - 1), d),
                sorted[Len(sorted)])
    ELSE Append(sorted, d)

RECURSIVE SortDeltas(_)
SortDeltas(ds) ==
    IF ds = <<>> THEN <<>>
    ELSE InsertLeft(SortDeltas(SubSeq(ds, 1, Len(ds) - 1)), ds[Len(ds)])

\* ------------------------------------------------------ the tar generator

\* A path is masked when a masked prefix is a prefix of its components.
IsPrefix(a, b) == Len(a) <= Len(b) /\ SubSeq(b, 1, Len(a)) = a

TrimSlash(s) == IF s # <<>> /\ s[1] = "/" THEN Tail(s) ELSE s

PathComponents(s) == Components(TrimSlash(Clean(s)))

IsMasked(name) ==
    \E m \in opt.masked : IsPrefix(PathComponents(m), PathComponents(name))

\* The name of the whiteout of a path: ".wh." + basename, in its directory.
WhiteoutName(name) ==
    LET p == TrimSlash(name)
    IN  Join(SplitDir(p), whPrefix \o SplitFile(p))

NoEntry == [typeflag |-> "None", name |-> <<>>, size |-> 0, linkname |-> <<>>]

\* AddWhiteout: an empty regular file under the whiteout's name.
WhiteoutEntry(name) ==
    IF IsMasked(name) THEN NoEntry
    ELSE [typeflag |-> "Reg", name |-> WhiteoutName(name), size |-> 0,
          linkname |-> <<>>]

\* AddOpaqueWhiteout: an empty regular file ".wh..wh..opq" in the directory.
OpaqueEntry(name) ==
    [typeflag |-> "Reg", name |-> Join(name, whOpaque), size |-> 0,
     linkname |-> <<>>]

IsOverlayWhiteout(fi) == fi.kind = "Char" /\ fi.rdev00

\* AddFile: the header written for an object, NoEntry when it is skipped.
FileEntry(name, fi, table) ==
    IF IsMasked(name) \/ fi.kind = "Sock" THEN NoEntry
    ELSE IF opt.translate /\ IsOverlayWhiteout(fi) THEN WhiteoutEntry(name)
    ELSE IF fi.kind = "Reg" /\ fi.nlink > 1 /\ \E r \in table : r.ino = fi.ino
    THEN [typeflag |-> "Link", name |-> name, size |-> 0,
          linkname |-> (CHOOSE r \in table : r.ino = fi.ino).path]
    ELSE [typeflag |-> fi.kind, name |-> name,
          size |-> IF fi.kind = "Reg" THEN fi.size ELSE 0, linkname |-> <<>>]

\* The inode table after AddFile: a regular file with several links is
\* recorded under the first path archived for it.
Remember(name, fi, table) ==
    IF FileEntry(name, fi, table).typeflag = "Reg" /\ fi.kind = "Reg"
       /\ fi.nlink > 1
    THEN table \cup {[ino |-> fi.ino, path |-> name]}
    ELSE table

\* ------------------------------------------------------ the layer splitter

\* Mutant of headerAllowance: two tar blocks are allowed for the header.
headerAllowanceTwoBlocks == 2 * blockSize

\* The bytes allowed for one header in the size prediction.
headerAllowance == 1000

\* Mutant of NeedSplit: the bytes already in the layer are left out.
NeedSplitIgnoresCounter(size) ==
    maxLayerBytes > 0 /\ size + headerAllowance > maxLayerBytes

\* Mutant of NeedSplit: a limit of 0 is a limit like any other.
NeedSplitAtZero(size) == written + size + headerAllowance > maxLayerBytes

\* The test before AddFile and AddWhiteout: would the entry make the layer
\* too big?
NeedSplit(size) ==
    maxLayerBytes > 0 /\ written + size + headerAllowance > maxLayerBytes

\* The buffer of the channel of readers: make(chan io.ReadCloser, 1).
chanBuffer == 1

NewPipe == [chunks |-> <<>>, wstate |-> "open", rclosed |-> FALSE,
            received |-> FALSE]

\* ------------------------------------------------- what is being archived

\* The name and the file information of the object at index i.
InLayers == mode = "layers"
AtEnd == i > (IF InLayers THEN Len(deltas) ELSE Len(walk))

\* Mutant of name: the walked path is joined without cutting the root off.
nameWithRoot ==
    IF InLayers THEN deltas[i].path ELSE Join(target, root \o walk[i])

\* Mutant of name: the path on disk is archived instead of the delta's path.
nameOnDisk ==
    IF InLayers THEN Join(<<"/", "r">>, deltas[i].path)
    ELSE Join(target, walk[i])

name == IF InLayers THEN deltas[i].path ELSE Join(target, walk[i])
info == IF InLayers THEN FileInfo[deltas[i].path] ELSE WalkInfo[walk[i]]
IsMissing == InLayers /\ deltas[i].type = "Missing"

\* The entry AddFile or AddWhiteout writes for the object at index i.
entry == IF IsMissing THEN WhiteoutEntry(name) ELSE FileEntry(name, info, seen)

\* ------------------------------------------------------------ pipe writes

\* A write to the current pipe returns when the consumer has read the bytes
\* (it holds the reader) or fails when the reader has been closed.
ReaderReads == held = cur /\ ~pipes[cur].rclosed
ReaderGone == pipes[cur].rclosed

Chunk(kind, e, bytes) ==
    [kind |-> kind, idx |-> i, name |-> e.name, typeflag |-> e.typeflag,
     size |-> e.size, bytes |-> bytes]

Deliver(c) == pipes' = [pipes EXCEPT ![cur].chunks = Append(@, c)]

\* io.MultiWriter(counter, writer): the counter is written first.
Count(bytes) == written' = IF InLayers THEN written + bytes ELSE written


\* ------------------------------------------------------------------ calls

\* CleanPath: the empty path stays empty, any other path is cleaned.
CleanPath(s) == IF s = <<>> THEN <<>> ELSE Clean(s)

NoCheck ==
    [written |-> 0, size |-> 0, split |-> FALSE, made |-> FALSE, splits |-> 0]

\* GenerateLayers(path, deltas, opt, maxLayerBytes) has returned the channel
\* and its goroutine is about to run.
InitLayers ==
    /\ mode = "layers"
    /\ deltas \in DeltaLists
    /\ maxLayerBytes \in LayerLimits
    /\ opt \in [translate : BOOLEAN, masked : MaskSets]
    /\ root = <<>> /\ target = <<>> /\ opaque = FALSE /\ walk = <<>>
    /\ pc = "start"
    /\ pipes = <<>>
    /\ held = 0

\* GenerateInsertLayer(root, target, opaque, opt) has made the pipe and
\* returned its reader to the consumer; its goroutine is about to run.
InitInsert ==
    /\ mode = "insert"
    /\ deltas = <<>>
    /\ maxLayerBytes = 0
    /\ opt \in [translate : BOOLEAN, masked : {{}}]
    /\ \E r \in Roots :
        /\ root = CleanPath(r)
        /\ walk \in IF r = <<>> THEN {<<>>} ELSE Walks
    /\ target \in Targets
    /\ opaque \in BOOLEAN
    /\ pc = "opaque"
    /\ pipes = <<[NewPipe EXCEPT !.received = TRUE]>>
    /\ held = 1

\* The repack command is not running.
NoRepack ==
    /\ maskPath = <<>> /\ noMaskVolumes = FALSE /\ volumes = {}
    /\ maskedPaths = <<>> /\ ranged = {} /\ rpc = "none"

\* No compressor is running.
NoCompress ==
    /\ compressor = [kind |-> "none", mediaType |-> ""]
    /\ reader = [bytes |-> <<>>, end |-> <<>>]
    /\ rd = 0
    /\ gzw = [header |-> FALSE, buf |-> <<>>, data |-> <<>>]
    /\ out = [data |-> <<>>, end |-> <<>>]
    /\ gpc = "none"

\* The state of a goroutine and a consumer that have not moved yet.
NotStarted ==
    /\ i = 0 /\ written = 0 /\ pad = 0 /\ bodyLeft = 0 /\ seen = {}
    /\ ch = <<>> /\ chClosed = FALSE
    /\ Err = NoErr
    /\ cstate = "run" /\ results = <<>>
    /\ lastCheck = NoCheck

\* No layer generator is running.
NoGenerator ==
    /\ mode = "none"
    /\ deltas = <<>> /\ maxLayerBytes = 0
    /\ opt = [translate |-> FALSE, masked |-> {}]
    /\ root = <<>> /\ target = <<>> /\ opaque = FALSE /\ walk = <<>>
    /\ pc = "none" /\ pipes = <<>> /\ held = 0
    /\ NotStarted

Init ==
    /\ InitLayers \/ InitInsert
    /\ NotStarted
    /\ NoRepack /\ NoCompress

\* ----------------------------------------- the goroutine of GenerateLayers

\* reader, writer := io.Pipe(); ch <- reader.
Start ==
    /\ pc = "start"
    /\ Len(ch) < chanBuffer
    /\ pipes' = Append(pipes, NewPipe)
    /\ ch' = Append(ch, cur + 1)
    /\ pc' = "sort"
    /\ UNCHANGED <<others, inputs, deltas, i, written, pad, bodyLeft, seen, Err,
                   chClosed, consumer, lastCheck>>

\* sort.Sort(inodeDeltas(deltas)).
Sort ==
    /\ pc = "sort"
    /\ deltas' = SortDeltas(deltas)
    /\ i' = 1
    /\ pc' = "loop"
    /\ UNCHANGED <<others, inputs, written, pad, bodyLeft, seen, Err, pipes, ch,
                   chClosed, consumer, lastCheck>>

\* The range loop is over: on to the final tg.tw.Close().
LoopEnd ==
    /\ pc = "loop" /\ InLayers /\ AtEnd
    /\ pc' = "close"
    /\ UNCHANGED <<others, inputs, deltas, i, written, pad, bodyLeft, seen, Err,
                   pipes, ch, chClosed, consumer, lastCheck>>

\* Mutant of SkipSame: the switch has no case for Missing either.
SkipSameOrMissing ==
    /\ pc = "loop" /\ InLayers /\ ~AtEnd
    /\ deltas[i].type \notin {"Modified", "Extra"}
    /\ i' = i + 1
    /\ UNCHANGED <<others, inputs, deltas, pc, written, pad, bodyLeft, seen, Err,
                   pipes, ch, chClosed, consumer, lastCheck>>

\* A delta that is neither Modified, Extra nor Missing: no case of the switch.
SkipSame ==
    /\ pc = "loop" /\ InLayers /\ ~AtEnd
    /\ deltas[i].type \notin {"Modified", "Extra", "Missing"}
    /\ i' = i + 1
    /\ UNCHANGED <<others, inputs, deltas, pc, written, pad, bodyLeft, seen, Err,
                   pipes, ch, chClosed, consumer, lastCheck>>

\* Mutant of CheckSize: the size is tested again once the header is out.
CheckSizeAfterHeader ==
    /\ InLayers /\ ~AtEnd
    /\ \/ /\ pc = "loop"
          /\ deltas[i].type \in {"Modified", "Extra", "Missing"}
          /\ IsMissing \/ info.kind # "Gone"
          /\ LET size == IF IsMissing THEN 0 ELSE info.size
             IN  /\ lastCheck' = [written |-> written, size |-> size,
                                  split |-> NeedSplit(size), made |-> TRUE,
                                  splits |-> lastCheck.splits
                                      + IF NeedSplit(size) THEN 1 ELSE 0]
                 /\ pc' = IF NeedSplit(size) THEN "splitClose" ELSE "add"
       \/ /\ pc = "body" /\ ~lastCheck.split /\ NeedSplit(bodyLeft)
          /\ lastCheck' = [written |-> written, size |-> bodyLeft,
                           split |-> TRUE, made |-> TRUE,
                           splits |-> lastCheck.splits + 1]
          /\ pc' = "splitClose"
    /\ UNCHANGED <<others, inputs, deltas, i, written, pad, bodyLeft, seen, Err,
                   pipes, ch, chClosed, consumer>>

\* fi, err := tg.fsEval.Lstat(fullPath) fails: return the wrapped error.
LstatFails ==
    /\ pc = "loop" /\ InLayers /\ ~AtEnd
    /\ deltas[i].type \in {"Modified", "Extra"}
    /\ info.kind = "Gone"
    /\ Err' = "add file lstat"
    /\ pc' = "defer"
    /\ UNCHANGED <<others, inputs, deltas, i, written, pad, bodyLeft, seen, pipes,
                   ch, chClosed, consumer, lastCheck>>

\* The size test of a Modified, Extra (Lstat size) or Missing (no size) delta.
CheckSize ==
    /\ pc = "loop" /\ InLayers /\ ~AtEnd
    /\ deltas[i].type \in {"Modified", "Extra", "Missing"}
    /\ IsMissing \/ info.kind # "Gone"
    /\ LET size == IF IsMissing THEN 0 ELSE info.size
       IN  /\ lastCheck' = [written |-> written, size |-> size,
                            split |-> NeedSplit(size), made |-> TRUE,
                                  splits |-> lastCheck.splits
                                      + IF NeedSplit(size) THEN 1 ELSE 0]
           /\ pc' = IF NeedSplit(size) THEN "splitClose" ELSE "add"
    /\ UNCHANGED <<others, inputs, deltas, i, written, pad, bodyLeft, seen, Err,
                   pipes, ch, chClosed, consumer>>

\* Mutant of SplitClose: the pipe is closed without closing the tar writer.
SplitCloseNoTrailer ==
    /\ pc = "splitClose"
    /\ pipes' = [pipes EXCEPT ![cur].wstate = "eof"]
    /\ pad' = 0
    /\ pc' = "splitPublish"
    /\ UNCHANGED <<others, inputs, deltas, i, written, bodyLeft, seen, Err, ch,
                   chClosed, consumer, lastCheck>>

\* tg.tw.Close(); writer.Close() of a split. The trailer is written when the
\* consumer reads it; the error of a failed write is dropped.
SplitClose ==
    /\ pc = "splitClose"
    /\ \/ /\ ReaderReads
          /\ pipes' = [pipes EXCEPT
                 ![cur].chunks = Append(@, Chunk("trailer", NoEntry,
                                                 pad + trailerSize)),
                 ![cur].wstate = "eof"]
       \/ /\ ReaderGone
          /\ pipes' = [pipes EXCEPT ![cur].wstate = "eof"]
    /\ Count(pad + trailerSize)
    /\ pad' = 0
    /\ pc' = "splitPublish"
    /\ UNCHANGED <<others, inputs, deltas, i, bodyLeft, seen, Err, ch, chClosed,
                   consumer, lastCheck>>

\* reader, writer = io.Pipe(); counter.written = 0; a new tar generator;
\* ch <- reader.
SplitPublish ==
    /\ pc = "splitPublish"
    /\ Len(ch) < chanBuffer
    /\ pipes' = Append(pipes, NewPipe)
    /\ ch' = Append(ch, cur + 1)
    /\ written' = 0
    /\ pad' = 0
    /\ seen' = {}
    /\ pc' = "add"
    /\ UNCHANGED <<others, inputs, deltas, i, bodyLeft, Err, chClosed, consumer,
                   lastCheck>>

\* AddFile or AddWhiteout of an object that yields no entry.
AddNothing ==
    /\ pc = "add"
    /\ entry = NoEntry
    /\ i' = i + 1
    /\ pc' = "loop"
    /\ UNCHANGED <<others, inputs, deltas, written, pad, bodyLeft, seen, Err, pipes,
                   ch, chClosed, consumer, lastCheck>>

\* AddFile or AddWhiteout: the header reaches the consumer.
AddHeader ==
    /\ pc = "add"
    /\ entry # NoEntry
    /\ ReaderReads
    /\ Deliver(Chunk("header", entry, pad + blockSize))
    /\ Count(pad + blockSize)
    /\ pad' = 0
    /\ seen' = IF IsMissing THEN seen ELSE Remember(name, info, seen)
    /\ bodyLeft' = entry.size
    /\ IF entry.size > 0
       THEN pc' = "body" /\ i' = i
       ELSE pc' = "loop" /\ i' = i + 1
    /\ UNCHANGED <<others, inputs, deltas, Err, ch, chClosed, consumer, lastCheck>>

\* AddFile or AddWhiteout: the write fails, the goroutine returns the error.
AddHeaderFails ==
    /\ pc = "add"
    /\ entry # NoEntry
    /\ ReaderGone
    /\ Count(pad + blockSize)
    /\ Err' = IF IsMissing THEN "generate whiteout layer file"
              ELSE IF InLayers THEN "generate layer file" ELSE "add file"
    /\ pc' = "defer"
    /\ UNCHANGED <<others, inputs, deltas, i, pad, bodyLeft, seen, pipes, ch,
                   chClosed, consumer, lastCheck>>

\* AddFile: the body of a regular file reaches the consumer.
AddBody ==
    /\ pc = "body"
    /\ ReaderReads
    /\ Deliver([kind |-> "body", idx |-> i, name |-> name, typeflag |-> "Reg",
                size |-> bodyLeft, bytes |-> bodyLeft])
    /\ Count(bodyLeft)
    /\ pad' = Padding(bodyLeft)
    /\ bodyLeft' = 0
    /\ i' = i + 1
    /\ pc' = "loop"
    /\ UNCHANGED <<others, inputs, deltas, seen, Err, ch, chClosed, consumer,
                   lastCheck>>

AddBodyFails ==
    /\ pc = "body"
    /\ ReaderGone
    /\ Count(bodyLeft)
    /\ Err' = IF InLayers THEN "generate layer file" ELSE "add file"
    /\ pc' = "defer"
    /\ UNCHANGED <<others, inputs, deltas, i, pad, bodyLeft, seen, pipes, ch,
                   chClosed, consumer, lastCheck>>

\* Mutant of Close: the goroutine returns without closing the tar writer.
CloseForgotten ==
    /\ pc = "close"
    /\ pc' = "defer"
    /\ UNCHANGED <<others, inputs, deltas, i, written, pad, bodyLeft, seen, Err,
                   pipes, ch, chClosed, consumer, lastCheck>>

\* The final tg.tw.Close(): the trailer reaches the consumer.
Close ==
    /\ pc = "close"
    /\ ReaderReads
    /\ Deliver(Chunk("trailer", NoEntry, pad + trailerSize))
    /\ Count(pad + trailerSize)
    /\ pad' = 0
    /\ pc' = "defer"
    /\ UNCHANGED <<others, inputs, deltas, i, bodyLeft, seen, Err, ch, chClosed,
                   consumer, lastCheck>>

CloseFails ==
    /\ pc = "close"
    /\ ReaderGone
    /\ Count(pad + trailerSize)
    /\ Err' = "close tar writer"
    /\ pc' = "defer"
    /\ UNCHANGED <<others, inputs, deltas, i, pad, bodyLeft, seen, pipes, ch,
                   chClosed, consumer, lastCheck>>

\* Mutant of Deferred: the deferred function does not close the channel.
DeferredWithoutClose ==
    /\ pc = "defer"
    /\ pipes' = [pipes EXCEPT
           ![cur].wstate = IF Err = NoErr THEN "eof" ELSE "err"]
    /\ pc' = "done"
    /\ UNCHANGED <<others, inputs, deltas, i, written, pad, bodyLeft, seen, Err,
                   ch, chClosed, consumer, lastCheck>>

\* The deferred function: writer.CloseWithError(errors.Wrap(Err, ...)), which
\* is a plain Close when Err is nil, and close(ch) in GenerateLayers.
Deferred ==
    /\ pc = "defer"
    /\ pipes' = [pipes EXCEPT
           ![cur].wstate = IF Err = NoErr THEN "eof" ELSE "err"]
    /\ chClosed' = InLayers
    /\ pc' = "done"
    /\ UNCHANGED <<others, inputs, deltas, i, written, pad, bodyLeft, seen, Err, ch,
                   consumer, lastCheck>>


\* ----------------------------------- the goroutine of GenerateInsertLayer

\* if opaque { tg.AddOpaqueWhiteout(target) }.
OpaqueSkip ==
    /\ pc = "opaque" /\ ~opaque
    /\ pc' = "root"
    /\ UNCHANGED <<others, inputs, deltas, i, written, pad, bodyLeft, seen, Err,
                   pipes, ch, chClosed, consumer, lastCheck>>

OpaqueWhiteout ==
    /\ pc = "opaque" /\ opaque
    /\ ReaderReads
    /\ Deliver(Chunk("header", OpaqueEntry(target), pad + blockSize))
    /\ pc' = "root"
    /\ UNCHANGED <<others, inputs, deltas, i, written, pad, bodyLeft, seen, Err, ch,
                   chClosed, consumer, lastCheck>>

OpaqueWhiteoutFails ==
    /\ pc = "opaque" /\ opaque
    /\ ReaderGone
    /\ Err' = "add opaque whiteout"
    /\ pc' = "defer"
    /\ UNCHANGED <<others, inputs, deltas, i, written, pad, bodyLeft, seen, pipes,
                   ch, chClosed, consumer, lastCheck>>

\* if root == "" { return tg.AddWhiteout(target) }.
RootWhiteout ==
    /\ pc = "root" /\ root = <<>>
    /\ ReaderReads
    /\ Deliver(Chunk("header", WhiteoutEntry(target), pad + blockSize))
    /\ pc' = "defer"
    /\ UNCHANGED <<others, inputs, deltas, i, written, pad, bodyLeft, seen, Err, ch,
                   chClosed, consumer, lastCheck>>

RootWhiteoutFails ==
    /\ pc = "root" /\ root = <<>>
    /\ ReaderGone
    /\ Err' = "add whiteout"
    /\ pc' = "defer"
    /\ UNCHANGED <<others, inputs, deltas, i, written, pad, bodyLeft, seen, pipes,
                   ch, chClosed, consumer, lastCheck>>

\* Mutant of WalkStart: the walk leaves out the root itself.
WalkStartBelowRoot ==
    /\ pc = "root" /\ root # <<>>
    /\ i' = 2
    /\ pc' = "loop"
    /\ UNCHANGED <<others, inputs, deltas, written, pad, bodyLeft, seen, Err, pipes,
                   ch, chClosed, consumer, lastCheck>>

\* unpriv.Walk(root, ...) starts at the root itself.
WalkStart ==
    /\ pc = "root" /\ root # <<>>
    /\ i' = 1
    /\ pc' = "loop"
    /\ UNCHANGED <<others, inputs, deltas, written, pad, bodyLeft, seen, Err, pipes,
                   ch, chClosed, consumer, lastCheck>>

\* The walk calls the function on the next object: tg.AddFile(pathInTar, ...).
WalkNext ==
    /\ pc = "loop" /\ ~InLayers /\ ~AtEnd
    /\ info.kind # "Err"
    /\ pc' = "add"
    /\ UNCHANGED <<others, inputs, deltas, i, written, pad, bodyLeft, seen, Err,
                   pipes, ch, chClosed, consumer, lastCheck>>

\* The walk calls the function with an error: if err != nil { return err }.
WalkFails ==
    /\ pc = "loop" /\ ~InLayers /\ ~AtEnd
    /\ info.kind = "Err"
    /\ Err' = "walk"
    /\ pc' = "defer"
    /\ UNCHANGED <<others, inputs, deltas, i, written, pad, bodyLeft, seen, pipes,
                   ch, chClosed, consumer, lastCheck>>

\* The walk is over: the goroutine returns nil; the tar writer is not closed.
WalkEnd ==
    /\ pc = "loop" /\ ~InLayers /\ AtEnd
    /\ pc' = "defer"
    /\ UNCHANGED <<others, inputs, deltas, i, written, pad, bodyLeft, seen, Err,
                   pipes, ch, chClosed, consumer, lastCheck>>

\* ----------------------------------------------------------- the consumer

\* reader := <-ch.
Receive ==
    /\ cstate = "run" /\ held = 0
    /\ ch # <<>>
    /\ held' = Head(ch)
    /\ ch' = Tail(ch)
    /\ pipes' = [pipes EXCEPT ![Head(ch)].received = TRUE]
    /\ UNCHANGED <<others, inputs, deltas, producer, chClosed, cstate, results,
                   lastCheck>>

\* The consumer reads the stream to its end: EOF, or the writer's error.
ReadEnd ==
    /\ held # 0
    /\ pipes[held].wstate # "open" /\ ~pipes[held].rclosed
    /\ results' = Append(results, [pipe |-> held, end |-> pipes[held].wstate])
    /\ held' = 0
    /\ UNCHANGED <<others, inputs, deltas, producer, pipes, ch, chClosed, cstate,
                   lastCheck>>

\* The consumer drops the reader it holds: reader.Close().
Drop ==
    /\ held # 0
    /\ pipes[held].wstate = "open" /\ ~pipes[held].rclosed
    /\ pipes' = [pipes EXCEPT ![held].rclosed = TRUE]
    /\ results' = Append(results, [pipe |-> held, end |-> "dropped"])
    /\ held' = 0
    /\ UNCHANGED <<others, inputs, deltas, producer, ch, chClosed, cstate, lastCheck>>

\* The consumer stops receiving from the channel (GenerateLayer takes one
\* reader; a caller that failed returns).
Stop ==
    /\ cstate = "run" /\ held = 0 /\ InLayers
    /\ results # <<>>
    /\ cstate' = "stopped"
    /\ UNCHANGED <<others, inputs, deltas, producer, pipes, ch, chClosed, held,
                   results, lastCheck>>

\* The channel is closed and empty (or there is no channel): nothing is left.
Finish ==
    /\ cstate = "run" /\ held = 0
    /\ ch = <<>>
    /\ IF InLayers THEN chClosed ELSE results # <<>>
    /\ cstate' = "finished"
    /\ UNCHANGED <<others, inputs, deltas, producer, pipes, ch, chClosed, held,
                   results, lastCheck>>

Next ==
    \/ Start \/ Sort \/ LoopEnd \/ SkipSame \/ LstatFails \/ CheckSize
    \/ SplitClose \/ SplitPublish
    \/ AddNothing \/ AddHeader \/ AddHeaderFails \/ AddBody \/ AddBodyFails
    \/ Close \/ CloseFails \/ Deferred
    \/ OpaqueSkip \/ OpaqueWhiteout \/ OpaqueWhiteoutFails
    \/ RootWhiteout \/ RootWhiteoutFails
    \/ WalkStart \/ WalkNext \/ WalkFails \/ WalkEnd
    \/ Receive \/ ReadEnd \/ Drop \/ Stop \/ Finish

Spec == Init /\ [][Next]_vars


\* ------------------- GenerateLayers with a consumer that reads everything

InitReadAll == Init /\ InLayers

\* The steps of the goroutine when no reader is ever dropped.
GoroutineSteps ==
    \/ Start \/ Sort \/ LoopEnd \/ SkipSame \/ LstatFails \/ CheckSize
    \/ SplitClose \/ SplitPublish
    \/ AddNothing \/ AddHeader \/ AddBody
    \/ Close \/ Deferred

\* The consumer receives every reader and reads each stream to its end.
ReadAllSteps == Receive \/ ReadEnd \/ Finish

NextReadAll == GoroutineSteps \/ ReadAllSteps

\* The goroutine is scheduled, and the consumer goes on receiving and
\* reading.
SpecReadAll ==
    /\ InitReadAll /\ [][NextReadAll]_vars
    /\ WF_vars(GoroutineSteps) /\ WF_vars(ReadAllSteps)

\* ======================= the masked paths of the repack command (repack.go)

\* The longest --mask-path list of the model.
MaxMaskPaths == 2

\* The paths that --mask-path and config.Volumes name.
VolumePaths == {pD, pE, pS}

MaskPathLists ==
    UNION {[1..n -> VolumePaths] : n \in 0..MaxMaskPaths}

\* The command has read its flags and the image's config.
InitRepack ==
    /\ maskPath \in MaskPathLists
    /\ noMaskVolumes \in BOOLEAN
    /\ volumes \in SUBSET VolumePaths
    /\ maskedPaths = <<>> /\ ranged = {} /\ rpc = "maskPath"
    /\ NoGenerator /\ NoCompress

\* Mutant of MaskVolumes: the flag is read the wrong way round.
MaskVolumesInverted == noMaskVolumes

\* if !ctx.Bool("no-mask-volumes").
MaskVolumes == ~noMaskVolumes

\* maskedPaths := ctx.StringSlice("mask-path"), and the test of the flag.
StringSlice ==
    /\ rpc = "maskPath"
    /\ maskedPaths' = maskPath
    /\ rpc' = IF MaskVolumes THEN "range" ELSE "repack"
    /\ UNCHANGED <<generator, compress, maskPath, noMaskVolumes, volumes,
                   ranged>>

\* for v := range config.Volumes { maskedPaths = append(maskedPaths, v) }:
\* a map is ranged over in no fixed order.
RangeVolumes ==
    /\ rpc = "range"
    /\ \E v \in volumes \ ranged :
        /\ maskedPaths' = Append(maskedPaths, v)
        /\ ranged' = ranged \cup {v}
    /\ UNCHANGED <<generator, compress, maskPath, noMaskVolumes, volumes,
                   rpc>>

RangeEnd ==
    /\ rpc = "range" /\ ranged = volumes
    /\ rpc' = "repack"
    /\ UNCHANGED <<generator, compress, maskPath, noMaskVolumes, volumes,
                   maskedPaths, ranged>>

\* return umoci.Repack(..., maskedPaths, ...).
Repack ==
    /\ rpc = "repack"
    /\ rpc' = "done"
    /\ UNCHANGED <<generator, compress, maskPath, noMaskVolumes, volumes,
                   maskedPaths, ranged>>

NextRepack == StringSlice \/ RangeVolumes \/ RangeEnd \/ Repack

SpecRepack == InitRepack /\ [][NextRepack]_vars


\* ============================================ the compressors (package mutate)

\* The longest source stream, the most bytes one Read of it returns, and
\* the block size of the gzip writer (256 KiB in the code), in bytes.
MaxBytes == 3
MaxRead == 2
gzBlock == 2

Bytes == {0, 1}
Sources == UNION {[1..n -> Bytes] : n \in 0..MaxBytes}

\* How a stream ends: an error is its messages, outermost first; a stream
\* that has not ended has none.
Open == <<>>
EOF == <<"EOF">>
ErrClosedPipe == <<"io: read/write on closed pipe">>

\* A source stream ends in EOF or, as the pipe of a failed tar producer
\* does, in an error.
SourceEnds == {EOF, <<"generate layer">>}

MediaTypeImageLayerGzip == "application/vnd.oci.image.layer.v1.tar+gzip"
MediaTypes == {"application/vnd.oci.image.layer.v1.tar", "meshuggah rocks!!!"}

\* NewNoopCompressor(mediaType) and GzipCompressor.
Compressors ==
    {[kind |-> "noop", mediaType |-> m] : m \in MediaTypes}
        \cup {[kind |-> "gzip", mediaType |-> ""]}

\* MediaType() of the two compressors.
MediaType ==
    IF compressor.kind = "noop" THEN compressor.mediaType
    ELSE MediaTypeImageLayerGzip

\* errors.Wrap(err, msg).
Wrap(err, msg) == <<msg>> \o err

\* Mutant of CloseWithError: the last close decides how the pipe ends.
CloseWithErrorOverwrites(p, e) == [p EXCEPT !.end = e]

\* pipeWriter.CloseWithError(e), and Close() for e = EOF: the first close of
\* a pipe decides how its reader ends, a later one changes nothing.
CloseWithError(p, e) == IF p.end = Open THEN [p EXCEPT !.end = e] ELSE p

\* ---- the gzip writer and reader: a member is a header, deflated blocks in
\* ---- the order of the input, and a trailer with checksum and length.
Frame(kind, runs, crc, isize) ==
    [kind |-> kind, runs |-> runs, crc |-> crc, isize |-> isize]

\* The model's deflate: the runs of equal bytes of a block.
RECURSIVE Deflate(_)
Deflate(bs) ==
    IF bs = <<>> THEN <<>>
    ELSE LET rest == Deflate(Tail(bs))
         IN  IF rest # <<>> /\ rest[1].b = Head(bs)
             THEN <<[b |-> Head(bs), n |-> rest[1].n + 1]>> \o Tail(rest)
             ELSE <<[b |-> Head(bs), n |-> 1]>> \o rest

RECURSIVE Inflate(_)
Inflate(runs) ==
    IF runs = <<>> THEN <<>>
    ELSE [k \in 1..Head(runs).n |-> Head(runs).b] \o Inflate(Tail(runs))

RECURSIVE Checksum(_)
Checksum(bs) ==
    IF bs = <<>> THEN 0 ELSE (Len(bs) * (Head(bs) + 1) + Checksum(Tail(bs))) % 256

HeaderFrames(w) ==
    IF w.header THEN <<>> ELSE <<Frame("header", <<>>, 0, 0)>>

\* The blocks that are full once buf holds the bytes, in order.
RECURSIVE FullBlocks(_)
FullBlocks(buf) ==
    IF Len(buf) < gzBlock THEN <<>>
    ELSE <<Frame("block", Deflate(SubSeq(buf, 1, gzBlock)), 0, 0)>>
             \o FullBlocks(SubSeq(buf, gzBlock + 1, Len(buf)))

Remainder(buf) == SubSeq(buf, Len(buf) - (Len(buf) % gzBlock) + 1, Len(buf))

\* gzw.Write(p): the frames it sends down the pipe, and the writer after it.
GzWriteFrames(w, p) == HeaderFrames(w) \o FullBlocks(w.buf \o p)
GzWrite(w, p) ==
    [header |-> TRUE, buf |-> Remainder(w.buf \o p), data |-> w.data \o p]

\* gzw.Close(): the header if none was written, the last block, the trailer.
GzCloseFrames(w) ==
    HeaderFrames(w)
        \o <<Frame("block", Deflate(w.buf), 0, 0),
             Frame("trailer", <<>>, Checksum(w.data), Len(w.data))>>

RECURSIVE InflateAll(_)
InflateAll(frames) ==
    IF frames = <<>> THEN <<>>
    ELSE Inflate(Head(frames).runs) \o InflateAll(Tail(frames))

\* gzip.NewReader(r) read to the end: the bytes, and whether the member was
\* well formed with a matching checksum and length.
GzipDecode(frames) ==
    LET n == Len(frames)
        formed ==
            /\ n >= 2
            /\ frames[1].kind = "header" /\ frames[n].kind = "trailer"
            /\ \A k \in 2..(n - 1) : frames[k].kind = "block"
        bytes == IF formed THEN InflateAll(SubSeq(frames, 2, n - 1)) ELSE <<>>
    IN  [ok |-> /\ formed
                /\ frames[n].crc = Checksum(bytes)
                /\ frames[n].isize = Len(bytes),
         bytes |-> bytes]

\* Compress(reader) has returned its reader to a consumer that reads it to
\* the end; for gzip the goroutine is about to run.
InitCompress ==
    /\ compressor \in Compressors
    /\ reader \in [bytes : Sources, end : SourceEnds]
    /\ rd = 0
    /\ gzw = [header |-> FALSE, buf |-> <<>>, data |-> <<>>]
    /\ out = [data |-> <<>>, end |-> Open]
    /\ gpc = "copy"
    /\ NoGenerator /\ NoRepack

ReadSizes == 1..Min(MaxRead, Len(reader.bytes) - rd)
NextBytes(n) == SubSeq(reader.bytes, rd + 1, rd + n)

\* io.Copy(gzw, reader): one Read of the source and the Write of its bytes.
GzCopy ==
    /\ compressor.kind = "gzip" /\ gpc = "copy"
    /\ \E n \in ReadSizes :
        /\ out' = [out EXCEPT !.data = @ \o GzWriteFrames(gzw, NextBytes(n))]
        /\ gzw' = GzWrite(gzw, NextBytes(n))
        /\ rd' = rd + n
    /\ UNCHANGED <<generator, repack, compressor, reader, gpc>>

\* The source is at EOF: io.Copy returns nil.
GzCopyEOF ==
    /\ compressor.kind = "gzip" /\ gpc = "copy"
    /\ rd = Len(reader.bytes) /\ reader.end = EOF
    /\ gpc' = "closeGzip"
    /\ UNCHANGED <<generator, repack, compressor, reader, rd, gzw, out>>

\* The source fails: io.Copy returns its error and the pipe is closed with
\* it; the goroutine goes on.
GzCopyFails ==
    /\ compressor.kind = "gzip" /\ gpc = "copy"
    /\ rd = Len(reader.bytes) /\ reader.end # EOF
    /\ out' = CloseWithError(out, Wrap(reader.end, "compressing layer"))
    /\ gpc' = "closeGzip"
    /\ UNCHANGED <<generator, repack, compressor, reader, rd, gzw>>

\* Mutant of GzClose: the gzip writer is never closed.
GzCloseForgotten ==
    /\ gpc = "closeGzip" /\ out.end = Open
    /\ gpc' = "closePipe"
    /\ UNCHANGED <<generator, repack, compressor, reader, rd, gzw, out>>

\* gzw.Close() writes what is left into the open pipe.
GzClose ==
    /\ gpc = "closeGzip" /\ out.end = Open
    /\ out' = [out EXCEPT !.data = @ \o GzCloseFrames(gzw)]
    /\ gzw' = [gzw EXCEPT !.header = TRUE, !.buf = <<>>]
    /\ gpc' = "closePipe"
    /\ UNCHANGED <<generator, repack, compressor, reader, rd>>

\* gzw.Close() writes into a pipe that is closed already: the write fails
\* and the pipe is closed with that error.
GzCloseFails ==
    /\ gpc = "closeGzip" /\ out.end # Open
    /\ out' = CloseWithError(out, Wrap(ErrClosedPipe,
                                        "close gzip writer"))
    /\ gpc' = "closePipe"
    /\ UNCHANGED <<generator, repack, compressor, reader, rd, gzw>>

\* pipeWriter.Close(), which returns nil.
GzClosePipe ==
    /\ gpc = "closePipe"
    /\ out' = CloseWithError(out, EOF)
    /\ gpc' = "done"
    /\ UNCHANGED <<generator, repack, compressor, reader, rd, gzw>>

\* The consumer reads withClose{r}: Read is the Read of the source.
NoopRead ==
    /\ compressor.kind = "noop" /\ gpc = "copy"
    /\ \E n \in ReadSizes :
        /\ out' = [out EXCEPT !.data = @ \o NextBytes(n)]
        /\ rd' = rd + n
    /\ UNCHANGED <<generator, repack, compressor, reader, gzw, gpc>>

NoopEnd ==
    /\ compressor.kind = "noop" /\ gpc = "copy"
    /\ rd = Len(reader.bytes)
    /\ out' = [out EXCEPT !.end = reader.end]
    /\ gpc' = "done"
    /\ UNCHANGED <<generator, repack, compressor, reader, rd, gzw>>

NextCompress ==
    \/ GzCopy \/ GzCopyEOF \/ GzCopyFails
    \/ GzClose \/ GzCloseFails \/ GzClosePipe
    \/ NoopRead \/ NoopEnd

\* The goroutine is scheduled and the consumer keeps reading.
SpecCompress == InitCompress /\ [][NextCompress]_vars /\ WF_vars(NextCompress)


\* ================================================================ claims

\* The chunks of every stream, in channel order, and the headers among them.
RECURSIVE ChunksUpTo(_)
ChunksUpTo(n) == IF n = 0 THEN <<>> ELSE ChunksUpTo(n - 1) \o pipes[n].chunks

AllChunks == ChunksUpTo(cur)
IsHeader(c) == c.kind = "header"
Headers == SelectSeq(AllChunks, IsHeader)
HeaderIdx == [k \in 1..Len(Headers) |-> Headers[k].idx]

RECURSIVE SumBytes(_)
SumBytes(cs) == IF cs = <<>> THEN 0 ELSE Head(cs).bytes + SumBytes(Tail(cs))

\* The bytes written to stream n so far.
LayerBytes(n) == SumBytes(pipes[n].chunks)

Indices == [k \in 1..Len(deltas) |-> k]
IsAddition(k) == deltas[k].type \in {"Modified", "Extra"}
RanClean == pc = "done" /\ Err = NoErr

\* ---------------------------------------------------------------------- C1
\* C1: for every two deltas of the same parent directory, one Missing and
\* the other Modified or Extra, the whiteout of the Missing delta is emitted
\* before the entry of the other, whatever the order of the input list.
C1_WhiteoutsBeforeAdditions ==
    InLayers =>
        \A a, b \in 1..Len(Headers) :
            (/\ deltas[Headers[a].idx].type = "Missing"
             /\ IsAddition(Headers[b].idx)
             /\ SplitDir(deltas[Headers[a].idx].path)
                    = SplitDir(deltas[Headers[b].idx].path))
            => a < b

\* ---------------------------------------------------------------------- C2
\* The objects that AddFile is called for, and the path each has in the tar.
Added(k) ==
    IF InLayers THEN IsAddition(k) /\ ~IsMasked(deltas[k].path) ELSE TRUE
ObjectCount == IF InLayers THEN Len(deltas) ELSE Len(walk)
ObjectInfo(k) == IF InLayers THEN FileInfo[deltas[k].path] ELSE WalkInfo[walk[k]]
ObjectPath(k) == IF InLayers THEN deltas[k].path ELSE Clean(target \o walk[k])
HeadersOf(k) == SelectSeq(Headers, LAMBDA c : c.idx = k)

\* C2: with overlay whiteout translation on, a run that ends without error
\* has written, for every added character device with rdev (0,0), exactly one
\* entry: an empty regular file named ".wh." + basename in the directory of
\* the device, and no Char entry; and the stream ends with EOF.
C2_OverlayWhiteoutTranslated ==
    (opt.translate /\ RanClean) =>
        /\ \A k \in 1..ObjectCount :
            (Added(k) /\ IsOverlayWhiteout(ObjectInfo(k))) =>
                /\ Len(HeadersOf(k)) = 1
                /\ HeadersOf(k)[1].typeflag = "Reg"
                /\ HeadersOf(k)[1].size = 0
                /\ SplitFile(HeadersOf(k)[1].name)
                       = whPrefix \o SplitFile(ObjectPath(k))
                /\ SplitDir(HeadersOf(k)[1].name)
                       = TrimSlash(SplitDir(ObjectPath(k)))
        /\ pipes[cur].wstate = "eof"

\* The insert of the test: a directory with the device "test", target "/".
C2_Witness ==
    /\ ~InLayers /\ opt.translate /\ RanClean
    /\ target = <<"/">> /\ walk = <<wRoot, wTest>> /\ ~opaque
    /\ Len(Headers) = 2
    /\ Headers[1].name = <<"/">>
    /\ Headers[2].name = whPrefix \o <<"t", "e", "s", "t">>

\* ---------------------------------------------------------------------- C3
NoDotDot(s) == \A k \in 1..Len(Components(s)) : Components(s)[k] # <<".", ".">>
NoLeadingSlash(s) == s = <<>> \/ s[1] # "/"

Yields(k) == deltas[k].type # "Same" /\ ~IsMasked(deltas[k].path)
IsSocket(k) == IsAddition(k) /\ FileInfo[deltas[k].path].kind = "Sock"
YieldsUnlessSocket(k) == Yields(k) /\ ~IsSocket(k)

\* Each entry is of the kind its delta asks for.
EntryKinds ==
    \A k \in 1..Len(Headers) :
        LET h == Headers[k]
            d == deltas[h.idx]
        IN  /\ d.type = "Missing" =>
                /\ h.typeflag = "Reg" /\ h.size = 0
                /\ SplitFile(h.name) = whPrefix \o SplitFile(d.path)
            /\ IsAddition(h.idx) =>
                h.typeflag \in {"Reg", "Dir", "Symlink", "Char", "Block",
                                "Fifo", "Link"}

\* C4: in a run of GenerateLayers that ends without error, the entries of
\* all streams are, in order, one per unmasked Modified, Extra or Missing
\* delta, none for a Same delta and none besides.
C4_OneEntryPerDelta ==
    (InLayers /\ RanClean) =>
        /\ HeaderIdx = SelectSeq(Indices, Yields)
        /\ EntryKinds

\* C4 as amended: the same, but a Modified or Extra delta of a socket yields
\* no entry.
C4_OneEntryPerArchivableDelta ==
    (InLayers /\ RanClean) =>
        /\ HeaderIdx = SelectSeq(Indices, YieldsUnlessSocket)
        /\ EntryKinds

C4_Witness ==
    /\ InLayers /\ RanClean /\ opt.masked = {}
    /\ Len(deltas) = 3
    /\ deltas[1] = [path |-> pD, type |-> "Same"]
    /\ deltas[2].type = "Missing"
    /\ deltas[3] = [path |-> pS, type |-> "Extra"]
    /\ HeaderIdx = <<2>>


\* ---------------------------------------------------------------------- C5
\* While the goroutine is between two writes, the counter holds the bytes
\* written to the current stream.
CounterIsLayerBytes ==
    (InLayers /\ pc \in {"loop", "add", "body", "splitClose", "close"})
        => written = LayerBytes(cur)

\* C5: the test before an entry seals the layer exactly when
\* maxLayerBytes > 0 and counter + file size + 1024 > maxLayerBytes, the
\* counter being the bytes written to the current layer.
C5_SplitsAtSlack1024 ==
    /\ CounterIsLayerBytes
    /\ lastCheck.made =>
        (lastCheck.split <=>
            (maxLayerBytes > 0
             /\ lastCheck.written + lastCheck.size + 1024 > maxLayerBytes))

\* C5 as amended: the same with a slack of 1000 bytes.
C5_SplitsAtSlack1000 ==
    /\ CounterIsLayerBytes
    /\ lastCheck.made =>
        (lastCheck.split <=>
            (maxLayerBytes > 0
             /\ lastCheck.written + lastCheck.size + 1000 > maxLayerBytes))

\* A split decided with bytes already in the layer, and one declined.
C5_Witness ==
    /\ lastCheck.made /\ lastCheck.split /\ lastCheck.written > 0
    /\ lastCheck.size > 0
    /\ pc = "splitPublish"

\* ---------------------------------------------------------------------- C6
RECURSIVE MaxBody(_)
MaxBody(k) ==
    IF k = 0 THEN 0
    ELSE LET rest == MaxBody(k - 1)
             fi == FileInfo[deltas[k].path]
             own == IF IsAddition(k) /\ fi.kind = "Reg" THEN fi.size ELSE 0
         IN  IF own > rest THEN own ELSE rest

\* The largest file body among the deltas.
maxSingleFileSize == MaxBody(Len(deltas))

\* C6: with maxLayerBytes > 0, no stream of GenerateLayers holds more than
\* maxLayerBytes + maxSingleFileSize bytes, headers, padding and trailer
\* included.
C6_LayerWithinBudget ==
    (InLayers /\ maxLayerBytes > 0) =>
        \A n \in 1..cur : LayerBytes(n) <= maxLayerBytes + maxSingleFileSize

\* C6 as amended: with one-block headers, no stream holds more than
\* maxLayerBytes + maxSingleFileSize + 2047 bytes (a header block, up to 511
\* bytes of padding and the trailer).
C6_LayerWithinBudgetAndOverhead ==
    (InLayers /\ maxLayerBytes > 0) =>
        \A n \in 1..cur :
            LayerBytes(n) <= maxLayerBytes + maxSingleFileSize + 2047

\* A sealed layer of several entries that is over maxLayerBytes.
C6_Witness ==
    /\ InLayers /\ maxLayerBytes > 0
    /\ \E n \in 1..cur :
        /\ pipes[n].wstate = "eof"
        /\ Len(pipes[n].chunks) >= 3
        /\ LayerBytes(n) > maxLayerBytes

\* ---------------------------------------------------------------------- C7
\* C7: a split falls between two entries: the body of an entry is in the
\* stream of its header, right after it, and no stream that has been left
\* ends with a header whose body is missing; this holds for a file larger
\* than maxLayerBytes too.
C7_EntryGranular ==
    \A n \in 1..cur :
        \A k \in 1..Len(pipes[n].chunks) :
            LET cs == pipes[n].chunks
                c == cs[k]
            IN  /\ c.kind = "body" =>
                    /\ k > 1
                    /\ cs[k - 1].kind = "header"
                    /\ cs[k - 1].idx = c.idx
                    /\ cs[k - 1].size = c.size
                /\ (c.kind = "header" /\ c.size > 0) =>
                    IF k < Len(cs)
                    THEN cs[k + 1].kind = "body" /\ cs[k + 1].idx = c.idx
                    ELSE n = cur

\* A file larger than maxLayerBytes, whole in a stream opened for it.
C7_Witness ==
    /\ InLayers /\ maxLayerBytes > 0 /\ cur >= 2
    /\ Len(pipes[cur].chunks) >= 2
    /\ pipes[cur].chunks[2].kind = "body"
    /\ pipes[cur].chunks[2].size > maxLayerBytes

\* ---------------------------------------------------------------------- C8
\* A stream is sealed: its trailer is written and its writer is closed.
Sealed(n) ==
    /\ pipes[n].wstate = "eof"
    /\ pipes[n].chunks # <<>>
    /\ pipes[n].chunks[Len(pipes[n].chunks)].kind = "trailer"

\* C8: the stream of layer N is sealed before the reader of layer N+1 is
\* published, and the entries of the layers in channel order are the entries
\* of the sorted delta list in order.
C8_SealedBeforeNextLayer ==
    InLayers =>
        /\ \A n \in 1..(cur - 1) : Sealed(n)
        /\ RanClean => HeaderIdx = SelectSeq(Indices, YieldsUnlessSocket)
        /\ \A a, b \in 1..Len(HeaderIdx) : a < b => HeaderIdx[a] < HeaderIdx[b]

\* ---------------------------------------------------------------------- C9
\* A published stream that the consumer has neither read from nor dropped.
Unread(n) == pipes[n].chunks = <<>> /\ ~pipes[n].rclosed

C10_DropEndsProducer ==
    /\ \A n \in 1..cur : pipes[n].rclosed => n = cur
    /\ pc = "done" =>
        /\ Err # NoErr => pipes[cur].wstate = "err"
        /\ InLayers => chClosed

\* --------------------------------------------------------------------- C11
\* The streams that the consumer has read to a clean end of file.
ReadToEOF == {results[k].pipe : k \in {j \in 1..Len(results) : results[j].end = "eof"}}

\* C11: a goroutine that returned an error has closed its current pipe with
\* that error, so no read of that stream ends in a clean end of file; and a
\* stream read to a clean end of file ends with the end-of-archive blocks.
C11_ErrorOrCompleteArchive ==
    /\ pc = "done" /\ Err # NoErr =>
        /\ pipes[cur].wstate = "err"
        /\ cur \notin ReadToEOF
    /\ \A n \in ReadToEOF :
        /\ pipes[n].chunks # <<>>
        /\ pipes[n].chunks[Len(pipes[n].chunks)].kind = "trailer"

\* --------------------------------------------------------------------- C12
AllSame == \A k \in 1..Len(deltas) : deltas[k].type = "Same"

\* C12: for a delta list that is empty or holds only Same deltas, and for
\* every limit, GenerateLayers publishes one stream only; a clean run leaves
\* in it the two zero blocks, 1024 bytes, and nothing else, and the channel
\* is closed once that stream is ended.
C12_EmptyDiffOneEmptyLayer ==
    InLayers /\ AllSame =>
        /\ cur <= 1
        /\ chClosed => pc = "done" /\ pipes[1].wstate # "open"
        /\ RanClean =>
            /\ cur = 1 /\ chClosed
            /\ Len(pipes[1].chunks) = 1
            /\ pipes[1].chunks[1].kind = "trailer"
            /\ LayerBytes(1) = 1024
            /\ pipes[1].wstate = "eof"

\* A list of one Same delta, under a limit, read to the end by the consumer.
C12_Witness ==
    /\ InLayers /\ AllSame /\ deltas # <<>> /\ maxLayerBytes > 0
    /\ RanClean /\ LayerBytes(1) = 1024
    /\ results = <<[pipe |-> 1, end |-> "eof"]>>

\* --------------------------------------------------------------------- C13
\* C13: with a limit of 0 GenerateLayers publishes exactly one stream: the
\* size test never asks for a split, and after a clean run the entries of
\* all deltas are in that stream.
C13_NoLimitOneLayer ==
    InLayers /\ maxLayerBytes = 0 =>
        /\ ~lastCheck.split
        /\ cur = IF pc = "start" THEN 0 ELSE 1
        /\ RanClean =>
            /\ HeaderIdx = SelectSeq(Indices, YieldsUnlessSocket)
            /\ Headers = SelectSeq(pipes[1].chunks, IsHeader)

\* The 2000-byte file and another entry went into the one stream.
C13_Witness ==
    /\ InLayers /\ maxLayerBytes = 0 /\ RanClean /\ cur = 1
    /\ Len(Headers) >= 2
    /\ \E k \in 1..Len(Headers) : Headers[k].size = 2000

\* --------------------------------------------------------------------- C14
\* p is a proper ancestor directory of q.
ProperAncestor(p, q) ==
    /\ Len(p) < Len(q)
    /\ SubSeq(q, 1, Len(p) + 1) = p \o <<"/">>

\* C14: of two Modified or Extra deltas of which one is a proper ancestor
\* directory of the other, the entry of the ancestor is emitted first.
C14_ParentBeforeChild ==
    InLayers =>
        \A a, b \in 1..Len(Headers) :
            /\ IsAddition(Headers[a].idx) /\ IsAddition(Headers[b].idx)
            /\ ProperAncestor(deltas[Headers[a].idx].path,
                              deltas[Headers[b].idx].path)
            => a < b

\* The directory d and two of its children have been emitted.
C14_Witness ==
    /\ InLayers /\ Len(Headers) = 3
    /\ IsAddition(Headers[1].idx) /\ deltas[Headers[1].idx].path = pD
    /\ IsAddition(Headers[2].idx) /\ deltas[Headers[2].idx].path = pDA
    /\ IsAddition(Headers[3].idx) /\ deltas[Headers[3].idx].path = pDC

\* --------------------------------------------------------------------- C15
IsEmptyReg(c) == c.typeflag = "Reg" /\ c.size = 0

\* The entries of GenerateInsertLayer after the opaque whiteout, if any.
AfterOpaque == IF opaque /\ Headers # <<>> THEN Tail(Headers) ELSE Headers

\* The name under which the k-th object of the walk is archived: its path
\* below target, or the whiteout of that path for a translated whiteout.
WalkedName(k) ==
    IF opt.translate /\ IsOverlayWhiteout(WalkInfo[walk[k]])
    THEN WhiteoutName(ObjectPath(k))
    ELSE ObjectPath(k)

\* C15: GenerateInsertLayer with opaque set emits the opaque whiteout of
\* target before every other entry; with an empty root the stream then holds
\* one whiteout of target and no file entry; otherwise it holds one entry
\* for every object of the walk, under path.Join(target, relative path), in
\* walk order.
C15_InsertLayerEntries ==
    ~InLayers =>
        /\ opaque /\ Headers # <<>> =>
            /\ IsEmptyReg(Headers[1])
            /\ Headers[1].name = Join(target, whOpaque)
        /\ RanClean =>
            /\ opaque => Headers # <<>>
            /\ root = <<>> =>
                /\ Len(AfterOpaque) = 1
                /\ IsEmptyReg(AfterOpaque[1])
                /\ AfterOpaque[1].name = WhiteoutName(target)
            /\ root # <<>> =>
                /\ Len(AfterOpaque) = Len(walk)
                /\ \A k \in 1..Len(walk) :
                    /\ AfterOpaque[k].idx = k
                    /\ AfterOpaque[k].name = WalkedName(k)

\* An opaque insertion of a directory with two objects below target t.
C15_Witness ==
    /\ ~InLayers /\ RanClean /\ opaque /\ root # <<>>
    /\ target = <<"t">> /\ walk = <<wRoot, wA, wTest>>
    /\ Len(Headers) = 4
    /\ Headers[3].name = <<"t", "/", "a">>

\* --------------------------------------------------------------------- C16
\* The strings of a slice, as a set.
Elements(sl) == {sl[k] : k \in 1..Len(sl)}

\* C16: the masked paths handed to Repack are the --mask-path values
\* together with, unless --no-mask-volumes is set, the keys of the config's
\* Volumes; with the flag set they are the --mask-path list itself.
C16_MaskedPathsUnion ==
    rpc \in {"repack", "done"} =>
        /\ Elements(maskedPaths) =
               Elements(maskPath)
                   \cup (IF noMaskVolumes THEN {} ELSE volumes)
        /\ SubSeq(maskedPaths, 1, Len(maskPath)) = maskPath
        /\ noMaskVolumes => maskedPaths = maskPath

\* Two volumes were added to a --mask-path list that names one of them.
C16_Witness ==
    /\ rpc = "done" /\ ~noMaskVolumes
    /\ maskPath = <<pD>> /\ volumes = {pD, pE}
    /\ Len(maskedPaths) = 3

\* --------------------------------------------------------------------- C17
\* C17: read to EOF, the output of the noop compressor is the input, byte
\* for byte, and MediaType() is the string the compressor was made with;
\* the output of the gzip compressor, read through a gzip reader, is the
\* input, byte for byte.
C17_CompressorRoundTrip ==
    /\ compressor.kind = "noop" =>
        /\ MediaType = compressor.mediaType
        /\ out.data = SubSeq(reader.bytes, 1, rd)
    /\ gpc = "done" /\ reader.end = EOF =>
        /\ out.end = EOF
        /\ compressor.kind = "noop" => out.data = reader.bytes
        /\ compressor.kind = "gzip" =>
            /\ GzipDecode(out.data).ok
            /\ GzipDecode(out.data).bytes = reader.bytes

\* Three bytes went through the gzip compressor: a full block and a rest.
C17_Witness ==
    /\ compressor.kind = "gzip" /\ gpc = "done" /\ reader.end = EOF
    /\ reader.bytes = <<1, 1, 0>>
    /\ Len(out.data) = 4
    /\ GzipDecode(out.data).bytes = <<1, 1, 0>>

\* --------------------------------------------------------------------- C18
\* C18: when reading the source fails, the reader of the gzip compressor
\* never ends in a clean EOF: once the goroutine is done it has ended with
\* the source's error, wrapped; and the goroutine comes to its end.
C18_GzipSourceError ==
    /\ [](compressor.kind = "gzip" /\ reader.end # EOF =>
            /\ out.end # EOF
            /\ gpc = "done" =>
                   out.end = Wrap(reader.end, "compressing layer"))
    /\ <>(compressor.kind = "gzip" => gpc = "done")

\* The source failed after a full block had gone down the pipe.
C18_Witness ==
    /\ compressor.kind = "gzip" /\ reader.end = <<"generate layer">>
    /\ gpc = "done" /\ Len(out.data) = 2
    /\ out.end = <<"compressing layer", "generate layer">>

\* --------------------------------------------------------------------- C19
HasEntry(n) == \E k \in 1..Len(pipes[n].chunks) : IsHeader(pipes[n].chunks[k])

\* C19: under a limit and with a delta that is not Same in the list, every
\* stream that GenerateLayers has published and sealed holds at least one
\* tar entry.
C19_NoEmptyLayer ==
    InLayers /\ maxLayerBytes > 0 /\ ~AllSame =>
        \A n \in 1..cur : pipes[n].wstate = "eof" => HasEntry(n)

\* --------------------------------------------------------------------- C20
Ended(n) == pipes[n].wstate # "open"

\* How far the goroutine and the consumer have come: every step of either
\* raises the number, and no run raises it beyond ProgressMax.
Rank ==
    [p \in {"start", "sort", "loop", "splitClose", "splitPublish", "add",
            "body", "close", "defer", "done"} |->
        CASE p = "start" -> 0 [] p = "sort" -> 1 [] p = "loop" -> 2
          [] p = "splitClose" -> 3 [] p = "splitPublish" -> 4
          [] p = "add" -> 5 [] p = "body" -> 6 [] p = "close" -> 7
          [] p = "defer" -> 8 [] p = "done" -> 9]
Progress ==
    (10 * i + Rank[pc])
        + (2 * Len(results) + (IF held # 0 THEN 1 ELSE 0)
              + (IF cstate = "finished" THEN 1 ELSE 0))
ProgressMax == (10 * (MaxDeltas + 1) + 9) + (2 * (MaxDeltas + 1) + 1)

\* Some step of the goroutine or of the consumer can be taken. Sort can be
\* taken whenever the goroutine stands before it, AddNothing or AddHeader
\* when it stands before an object that yields no entry or the consumer
\* reads the current stream.
CanStep ==
    \/ pc = "sort"
    \/ pc = "add" /\ (entry = NoEntry \/ ReaderReads)
    \/ ENABLED (\/ Start \/ LoopEnd \/ SkipSame \/ LstatFails \/ CheckSize
                \/ SplitClose \/ SplitPublish \/ AddBody \/ Close \/ Deferred
                \/ Receive \/ ReadEnd \/ Finish)

\* C20: with a consumer that receives every reader and reads each stream to
\* its end, the goroutine of GenerateLayers comes to its end: before its
\* end some step can always be taken, and every step is progress towards a
\* bound. The channel is closed once, by the goroutine's last step, when
\* every published stream has been ended, and the goroutine has published
\* one stream more than it decided splits.
C20_ReadAllTerminates ==
    /\ [](pc # "done" => CanStep)
    /\ [](Progress <= ProgressMax)
    /\ [][Progress' > Progress]_vars
    /\ [](chClosed =>
            /\ pc = "done"
            /\ \A n \in 1..cur : Ended(n))
    /\ [](pc = "done" =>
            /\ chClosed
            /\ cur = 1 + lastCheck.splits
            /\ \A n \in 1..cur : pipes[n].received \/ ch = <<n>>)
    /\ [][chClosed => chClosed']_vars

\* Two splits: three streams, all read to EOF, and the channel closed.
C20_Witness ==
    /\ InLayers /\ pc = "done" /\ chClosed /\ cstate = "finished"
    /\ lastCheck.splits = 2 /\ cur = 3
    /\ \A k \in 1..3 : results[k] = [pipe |-> k, end |-> "eof"]

====
